---- MODULE Spec2Model ----
(***************************************************************************)
(* BIP32 extended private keys of wagyu's bitcoin crate                    *)
(* (bitcoin/src/extended_private_key.rs): master generation, child key     *)
(* derivation and the 82-byte Base58Check text codec.                      *)
(*                                                                         *)
(* Byte strings are sequences of 0..255 and keep the widths and offsets    *)
(* of the source.  A u32 is held as two 16-bit halves [hi, lo], because    *)
(* its values exceed a signed 32-bit integer; a 256-bit scalar is held as   *)
(* its 32 big-endian bytes.  The hash functions and the curve   *)
(* arithmetic are collaborators of the file: they are deterministic        *)
(* stand-ins with the output widths of the originals.                      *)
(***************************************************************************)
EXTENDS Integers, Sequences, FiniteSets, TLC

VARIABLES key, text, origin, last, root, hops

vars == <<key, text, origin, last, root, hops>>

(***************************************************************************)
(* Bounds of the exploration                                               *)
(***************************************************************************)
\* longest chain of ckd_priv calls explored from one master or decoded key
MaxHops == 1
\* number of distinct seeds handed to new()
NumSeeds == 2

(***************************************************************************)
(* Bytes, integers                                                         *)
(***************************************************************************)
Zeros(n) == [i \in 1..n |-> 0]

Filled(n, b) == [i \in 1..n |-> b]

\* Rust's data[a..b]: 0-based, half open
Slice(data, a, b) == SubSeq(data, a + 1, b)

\* lexicographic order of two big-endian byte strings of the same length
LessBE(a, b) ==
    \E i \in 1..Len(a) : a[i] < b[i] /\ \A j \in 1..(i - 1) : a[j] = b[j]

U32(h, l) == [hi |-> h, lo |-> l]

\* a >= b on u32
U32Geq(a, b) == a.hi > b.hi \/ (a.hi = b.hi /\ a.lo >= b.lo)

\* 2_u32.pow(31)
TwoPow31 == U32(32768, 0)

\* BigEndian::write_u32
WriteU32BE(n) == <<n.hi \div 256, n.hi % 256, n.lo \div 256, n.lo % 256>>

\* the four bytes read least significant first
ReadU32LE(b) == U32(b[4] * 256 + b[3], b[2] * 256 + b[1])

\* Cursor::read_u32::<BigEndian>
ReadU32BE(b) == U32(b[1] * 256 + b[2], b[3] * 256 + b[4])

\* position-weighted sum of a byte string, the seed of the stand-in hashes
RECURSIVE WeightedSum(_, _)
WeightedSum(data, i) ==
    IF i > Len(data) THEN 0 ELSE i * data[i] + WeightedSum(data, i + 1)

(***************************************************************************)
(* secp256k1: scalars                                                      *)
(***************************************************************************)
\* the group order n of secp256k1, big-endian
CurveOrder ==
    <<255, 255, 255, 255, 255, 255, 255, 255, 255, 255, 255, 255, 255, 255, 255, 254,
      186, 174, 220, 230, 175, 72, 160, 59, 191, 210, 94, 140, 208, 54, 65, 65>>

\* SecretKey::from_slice accepts 32 bytes that are nonzero and below n
ValidScalar(b) == Len(b) = 32 /\ b # Zeros(32) /\ LessBE(b, CurveOrder)

\* a + b over 256 bits: <<carry out, 32 bytes>>
AddBE(a, b) ==
    LET c[i \in 1..33] == IF i = 33 THEN 0 ELSE (a[i] + b[i] + c[i + 1]) \div 256
    IN  <<c[1], [i \in 1..32 |-> (a[i] + b[i] + c[i + 1]) % 256]>>

\* a - b over 256 bits, modulo 2^256
SubBE(a, b) ==
    LET w[i \in 1..33] == IF i = 33 THEN 0
                          ELSE IF a[i] - b[i] - w[i + 1] < 0 THEN 1 ELSE 0
    IN  [i \in 1..32 |-> (a[i] - b[i] - w[i + 1] + 256) % 256]

\* (a + b) mod n for a, b below n
AddModOrder(a, b) ==
    LET s == AddBE(a, b)
    IN  IF s[1] = 1 \/ ~LessBE(s[2], CurveOrder) THEN SubBE(s[2], CurveOrder) ELSE s[2]

\* SecretKey::add_assign: the tweaked key, or an error when the sum is zero
AddAssign(secret, other) ==
    LET s == AddModOrder(secret, other)
    IN  IF s = Zeros(32) THEN [ok |-> FALSE, secret |-> secret]
        ELSE [ok |-> TRUE, secret |-> s]

\* PublicKey::from_secret_key(..).serialize(): 33 bytes, 0x02 or 0x03 then x
PublicKeySerialize(secret) ==
    <<2 + (WeightedSum(secret, 1) % 2)>>
        \o [i \in 1..32 |-> (secret[33 - i] + 17 * i) % 256]

(***************************************************************************)
(* Hashes                                                                  *)
(***************************************************************************)
Scalar(n) == Zeros(31) \o <<n>>

OrderMinusOne == SubBE(CurveOrder, Scalar(1))

\* the left halves the stand-in keyed hash can produce: valid scalars, and
\* the two invalid ones (zero, the group order itself)
HmacLeftSamples ==
    <<Scalar(2), OrderMinusOne, Scalar(1), Scalar(1), Zeros(32), OrderMinusOne,
      Scalar(2), CurveOrder>>

\* HmacSha512::new_varkey(k), input(data), result().code(): 64 bytes
HmacSha512(k, data) ==
    LET d == (31 * WeightedSum(k, 1) + WeightedSum(data, 1)) % 251
    IN  HmacLeftSamples[(d % Len(HmacLeftSamples)) + 1]
            \o Filled(32, 1 + ((d \div Len(HmacLeftSamples)) % 2))

\* model::crypto::hash160: 20 bytes
hash160(data) ==
    LET d == WeightedSum(data, 1)
    IN  [i \in 1..20 |-> IF i = 4 THEN 1 + (d % 2) ELSE 0]

\* model::crypto::checksum: the double hash, 32 bytes; the stand-in tells
\* apart any two inputs that differ in one byte
checksum(data) ==
    LET c == (WeightedSum(data, 1) + Len(data)) % 65521
    IN  <<(c \div 251) % 256, c % 251, c \div 256, c % 256>>
            \o [i \in 1..28 |-> (c + i) % 256]

\* b"Bitcoin seed"
BitcoinSeed == <<66, 105, 116, 99, 111, 105, 110, 32, 115, 101, 101, 100>>

(***************************************************************************)
(* Types                                                                   *)
(***************************************************************************)
\* BitcoinPrivateKey::from_secret_key(secret_key, network, compressed)
BitcoinPrivateKey(secret, network, compressed) ==
    [secret_key |-> secret, network |-> network, compressed |-> compressed]

\* struct BitcoinExtendedPrivateKey
BitcoinExtendedPrivateKey(pk, cc, net, d, fp, cn) ==
    [private_key |-> pk, chain_code |-> cc, network |-> net, depth |-> d,
     parent_fingerprint |-> fp, child_number |-> cn]

\* Option: the empty sequence, or a sequence of one value
None == <<>>
Some(v) == <<v>>

\* what a call returns: Ok(value), Err(msg), or a panic that ends the process
Ok(v) == [kind |-> "Ok", msg |-> "", value |-> Some(v)]
Err(m) == [kind |-> "Err", msg |-> m, value |-> None]
Panic(m) == [kind |-> "Panic", msg |-> m, value |-> None]

\* the width of depth
U8Modulus == 256

(***************************************************************************)
(* derive_private_key_and_chain_code                                       *)
(***************************************************************************)
derive_private_key_and_chain_code(result) ==
    IF ~ValidScalar(Slice(result, 0, 32))
    THEN Panic("error generating secret key")
    ELSE Ok([private_key |-> BitcoinPrivateKey(Slice(result, 0, 32), "Mainnet", TRUE),
             chain_code |-> Slice(result, 32, 64)])

(***************************************************************************)
(* generate_master / new                                                   *)
(***************************************************************************)
\* the fields of a master key: depth, parent_fingerprint, child_number
master_fields_of_child == [depth |-> 1, parent_fingerprint |-> Zeros(4),
                           child_number |-> U32(0, 0)]

master_fields == [depth |-> 0, parent_fingerprint |-> Zeros(4),
                  child_number |-> U32(0, 0)]

generate_master(seed) ==
    LET result == HmacSha512(BitcoinSeed, seed)
        derived == derive_private_key_and_chain_code(result)
    IN  IF derived.kind = "Panic" THEN derived
        ELSE Ok(BitcoinExtendedPrivateKey(derived.value[1].private_key,
                                          derived.value[1].chain_code,
                                          "Mainnet", master_fields.depth,
                                          master_fields.parent_fingerprint,
                                          master_fields.child_number))

new(seed) == generate_master(seed)

(***************************************************************************)
(* ckd_priv                                                                *)
(***************************************************************************)
\* the comparison made strict
IsHardenedStrict(child_number) ==
    U32Geq(child_number, TwoPow31) /\ child_number # TwoPow31

\* child_number >= 2_u32.pow(31)
IsHardened(child_number) == U32Geq(child_number, TwoPow31)

\* the bytes fed to the keyed hash before the child number
MacPrefix(self, child_number) ==
    IF IsHardened(child_number)
    THEN <<0>> \o self.private_key.secret_key
    ELSE PublicKeySerialize(self.private_key.secret_key)

\* everything fed to the keyed hash
MacInput(self, child_number) ==
    MacPrefix(self, child_number) \o WriteU32BE(child_number)

\* self.depth + 1 on u8: a build with overflow checks panics at 255, a build
\* without them wraps to 0
DepthPlusOne(depth, overflow_checks) ==
    IF depth + 1 < U8Modulus THEN Ok(depth + 1)
    ELSE IF overflow_checks THEN Panic("attempt to add with overflow")
    ELSE Ok((depth + 1) % U8Modulus)

\* the network reset to the default one
child_network_default(self) == "Mainnet"

\* network: self.network
child_network(self) == self.network

ckd_priv(self, child_number, overflow_checks) ==
    LET public_key_serialized == PublicKeySerialize(self.private_key.secret_key)
        result == HmacSha512(self.chain_code, MacInput(self, child_number))
        derived == derive_private_key_and_chain_code(result)
        sum == AddAssign(derived.value[1].private_key.secret_key,
                         self.private_key.secret_key)
        parent_fingerprint == Slice(hash160(public_key_serialized), 0, 4)
        depth == DepthPlusOne(self.depth, overflow_checks)
    IN  IF derived.kind = "Panic" THEN derived
        ELSE IF ~sum.ok THEN Panic("error add assign")
        ELSE IF depth.kind = "Panic" THEN depth
        ELSE Ok(BitcoinExtendedPrivateKey(
                    [derived.value[1].private_key EXCEPT !.secret_key = sum.secret],
                    derived.value[1].chain_code,
                    child_network(self),
                    depth.value[1],
                    parent_fingerprint,
                    child_number))

(***************************************************************************)
(* Text: base-58                                                           *)
(***************************************************************************)
\* A string is either the base-58 spelling of a byte string, which it then
\* names, or a string that is not base-58 at all.
Base58Text(bytes) == [wellformed |-> TRUE, bytes |-> bytes]

NotBase58 == [wellformed |-> FALSE, bytes |-> <<>>]

\* [u8]::to_base58
to_base58(bytes) == Base58Text(bytes)

\* str::from_base58
from_base58(s) == IF s.wellformed THEN Ok(s.bytes) ELSE Err("InvalidBase58Character")

(***************************************************************************)
(* Version prefixes                                                        *)
(***************************************************************************)
MainnetVersion == <<4, 136, 173, 228>>

TestnetVersion == <<4, 53, 131, 148>>

VersionBytes(network) ==
    IF network = "Mainnet" THEN MainnetVersion ELSE TestnetVersion

(***************************************************************************)
(* Display::fmt                                                            *)
(***************************************************************************)
\* result[0..78): the fields packed at their offsets
fmt_body(self) ==
    VersionBytes(self.network)
        \o <<self.depth % U8Modulus>>
        \o self.parent_fingerprint
        \o WriteU32BE(self.child_number)
        \o self.chain_code
        \o <<0>>
        \o self.private_key.secret_key

fmt(self) ==
    LET body == fmt_body(self)
    IN  to_base58(body \o Slice(checksum(Slice(body, 0, 78)), 0, 4))

(***************************************************************************)
(* FromStr::from_str                                                       *)
(***************************************************************************)
InvalidLengthMsg == "Invalid extended private key string length"

InvalidVersionMsg == "Invalid network version"

InvalidChecksumMsg == "Invalid extended private key"

\* *expected == *checksum
checksum_matches(expected, sum) == expected = sum

from_str(s) ==
    LET decoded == from_base58(s)
        data == decoded.value[1]
        network == IF Slice(data, 0, 4) = MainnetVersion THEN "Mainnet" ELSE "Testnet"
        depth == data[5]
        parent_fingerprint == Slice(data, 5, 9)
        child_number == ReadU32BE(Slice(data, 9, 13))
        chain_code == Slice(data, 13, 45)
        private_key == BitcoinPrivateKey(Slice(data, 46, 78), network, TRUE)
        expected == Slice(data, 78, 82)
        sum == Slice(checksum(Slice(data, 0, 78)), 0, 4)
    IN  IF decoded.kind # "Ok"
        THEN Panic("Error decoding base58 extended private key string")
        ELSE IF Len(data) # 82 THEN Err(InvalidLengthMsg)
        ELSE IF Slice(data, 0, 4) # MainnetVersion /\ Slice(data, 0, 4) # TestnetVersion
        THEN Err(InvalidVersionMsg)
        ELSE IF ~ValidScalar(Slice(data, 46, 78))
        THEN Panic("Error decoding secret key string")
        ELSE IF checksum_matches(expected, sum)
        THEN Ok(BitcoinExtendedPrivateKey(private_key, chain_code, network, depth,
                                          parent_fingerprint, child_number))
        ELSE Err(InvalidChecksumMsg)

(***************************************************************************)
(* Inputs                                                                  *)
(***************************************************************************)
\* seeds handed to new(): the first is 000102030405060708090a0b0c0d0e0f
Seed(n) == [j \in 1..16 |-> (j - 1 + 16 * n) % 256]

Seeds == {Seed(n) : n \in 0..(NumSeeds - 1)}

\* child numbers handed to ckd_priv: 0, 2^31 - 1, 2^31, 2^32 - 1
ChildNumbers == {U32(0, 0), U32(32767, 65535), U32(32768, 0), U32(65535, 65535)}

\* the fields of the 82-byte payloads handed to from_str
SuppliedVersions == {MainnetVersion, TestnetVersion, <<4, 136, 178, 30>>}

SuppliedDepths == {0, 255}

SuppliedFingerprints == {Zeros(4), <<52, 66, 25, 62>>}

SuppliedChildNumbers == {U32(32768, 1)}

SuppliedChainCodes == {Filled(32, 1)}

SuppliedMarkers == {0, 1}

SuppliedScalars == {Scalar(1), OrderMinusOne, Zeros(32), CurveOrder}

\* bytes[0..78) of a payload
Payload(version, depth, fp, cn, cc, marker, scalar) ==
    version \o <<depth>> \o fp \o WriteU32BE(cn) \o cc \o <<marker>> \o scalar

\* a payload followed by its checksum, or by a checksum that is off by one
Sealed(body, good) ==
    LET sum == Slice(checksum(body), 0, 4)
    IN  body \o (IF good THEN sum ELSE [sum EXCEPT ![4] = (sum[4] + 1) % 256])

\* one bit of one byte inverted
FlipBit(bytes, i, b) ==
    [bytes EXCEPT ![i] = IF (bytes[i] \div (2 ^ b)) % 2 = 1
                         THEN bytes[i] - 2 ^ b ELSE bytes[i] + 2 ^ b]

(***************************************************************************)
(* State                                                                   *)
(*   key     the extended private key the caller holds, if any             *)
(*   text    the string the caller is about to parse, if any               *)
(*   origin  where that string comes from, and the key it spells           *)
(*   last    the last call: its receiver, its argument, what it returned   *)
(*   root    how the chain the key belongs to began, and on which network  *)
(*   hops    the number of ckd_priv calls since the chain began            *)
(***************************************************************************)
NoCall ==
    [op |-> "none", self |-> None, child_number |-> U32(0, 0), mac_data |-> <<>>,
     kind |-> "Ok", msg |-> ""]

Call(op, self, child_number, mac_data, r) ==
    [op |-> op, self |-> self, child_number |-> child_number, mac_data |-> mac_data,
     kind |-> r.kind, msg |-> r.msg]

NoOrigin == [how |-> "none", of |-> None]

NoRoot == [how |-> "none", network |-> "Mainnet"]

\* a panic ends the process
Aborted == last.kind = "Panic"

\* the caller holds no string
Idle == ~Aborted /\ text = None

\* the caller holds no key yet
Fresh == Idle /\ key = None

Init ==
    /\ key = None
    /\ text = None
    /\ origin = NoOrigin
    /\ last = NoCall
    /\ root = NoRoot
    /\ hops = 0

\* BitcoinExtendedPrivateKey::new(seed)
New(seed) ==
    /\ Fresh
    /\ LET r == new(seed)
       IN  /\ last' = Call("new", None, U32(0, 0), <<>>, r)
           /\ key' = r.value
           /\ root' = IF r.kind = "Ok"
                      THEN [how |-> "master", network |-> r.value[1].network]
                      ELSE root
    /\ hops' = 0
    /\ UNCHANGED <<text, origin>>

\* key.ckd_priv(child_number), in a build with or without overflow checks
CkdPriv(child_number, overflow_checks) ==
    /\ Idle
    /\ key # None
    /\ hops < MaxHops
    /\ LET r == ckd_priv(key[1], child_number, overflow_checks)
       IN  /\ last' = Call("ckd_priv", key, child_number,
                           MacInput(key[1], child_number), r)
           /\ key' = IF r.kind = "Ok" THEN r.value ELSE key
           /\ hops' = IF r.kind = "Ok" THEN hops + 1 ELSE hops
    /\ UNCHANGED <<text, origin, root>>

\* key.to_string()
Display ==
    /\ Idle
    /\ key # None
    /\ text' = Some(fmt(key[1]))
    /\ origin' = [how |-> "display", of |-> key]
    /\ last' = Call("to_string", key, U32(0, 0), <<>>, Ok(0))
    /\ UNCHANGED <<key, root, hops>>

\* a string arrives from outside
Supply(s) ==
    /\ text' = Some(s)
    /\ origin' = [how |-> "supplied", of |-> None]
    /\ last' = NoCall
    /\ UNCHANGED <<key, root, hops>>

SupplyPayload ==
    /\ Fresh
    /\ \E version \in SuppliedVersions, depth \in SuppliedDepths,
       fp \in SuppliedFingerprints, cn \in SuppliedChildNumbers,
       cc \in SuppliedChainCodes, marker \in SuppliedMarkers,
       scalar \in SuppliedScalars, good \in BOOLEAN :
         Supply(to_base58(Sealed(Payload(version, depth, fp, cn, cc, marker, scalar),
                                 good)))

SupplyTruncated ==
    /\ Fresh
    /\ \E version \in SuppliedVersions, scalar \in SuppliedScalars, n \in {0, 4, 81} :
         Supply(to_base58(SubSeq(
             Sealed(Payload(version, 0, Zeros(4), U32(0, 0), Filled(32, 1), 0, scalar),
                    TRUE), 1, n)))

SupplyGarbage == Fresh /\ Supply(NotBase58)

\* one bit of the string of a key is inverted on its way to the parser
Tamper(i, b) ==
    /\ ~Aborted
    /\ text # None
    /\ origin.how = "display"
    /\ last.op = "to_string"
    /\ text' = Some(to_base58(FlipBit(from_base58(text[1]).value[1], i, b)))
    /\ origin' = [origin EXCEPT !.how = "tampered"]
    /\ UNCHANGED <<key, last, root, hops>>

\* BitcoinExtendedPrivateKey::from_str(text)
FromStr ==
    /\ ~Aborted
    /\ text # None
    /\ last.op # "from_str"
    /\ LET r == from_str(text[1])
       IN  /\ last' = Call("from_str", None, U32(0, 0), <<>>, r)
           /\ key' = IF r.kind = "Ok" THEN r.value ELSE key
           /\ root' = IF r.kind = "Ok" /\ origin.how # "display"
                      THEN [how |-> "decoded", network |-> r.value[1].network]
                      ELSE root
           /\ hops' = IF r.kind = "Ok" /\ origin.how # "display" THEN 0 ELSE hops
    /\ UNCHANGED <<text, origin>>

\* the caller lets go of the parsed string and of the result's report
Discard ==
    /\ ~Aborted
    /\ last.op = "from_str"
    /\ text' = None
    /\ origin' = NoOrigin
    /\ last' = NoCall
    /\ UNCHANGED <<key, root, hops>>

Next ==
    \/ \E seed \in Seeds : New(seed)
    \/ \E child_number \in ChildNumbers, overflow_checks \in BOOLEAN :
           CkdPriv(child_number, overflow_checks)
    \/ Display
    \/ SupplyPayload
    \/ SupplyTruncated
    \/ SupplyGarbage
    \/ \E i \in 1..82, b \in 0..7 : Tamper(i, b)
    \/ FromStr
    \/ Discard

Spec == Init /\ [][Next]_vars

(***************************************************************************)
(* Error kinds of the specification, as the code reports them              *)
(***************************************************************************)
ChecksumMismatch == Err(InvalidChecksumMsg)

UnknownNetworkVersion == Err(InvalidVersionMsg)

\* what the last call returned
Returned(r) == last.kind = r.kind /\ last.msg = r.msg

\* the last call was from_str on a string of the given origin
Parsed(how) == last.op = "from_str" /\ origin.how = how

\* the last call was ckd_priv
Derived == last.op = "ckd_priv"

(***************************************************************************)
(* Properties                                                              *)
(***************************************************************************)

\* C1. Round trip: parsing the string of a key succeeds and gives back a
\* key with the same private scalar, chain code, network, depth, parent
\* fingerprint and child number.
RoundTrip ==
    Parsed("display") =>
        /\ last.kind = "Ok"
        /\ key[1].private_key.secret_key = origin.of[1].private_key.secret_key
        /\ key[1].chain_code = origin.of[1].chain_code
        /\ key[1].network = origin.of[1].network
        /\ key[1].depth = origin.of[1].depth
        /\ key[1].parent_fingerprint = origin.of[1].parent_fingerprint
        /\ key[1].child_number = origin.of[1].child_number

\* C1 witness: the string of a derived Testnet key with child number
\* 2^32 - 1 has been parsed back.
RoundTripWitness ==
    /\ Parsed("display")
    /\ last.kind = "Ok"
    /\ hops > 0
    /\ key[1].network = "Testnet"
    /\ key[1].child_number = U32(65535, 65535)

\* the offset (from 0) of the byte in which a tampered string differs from
\* the string of its key
TamperedAt ==
    LET sent == fmt(origin.of[1]).bytes
    IN  (CHOOSE i \in 1..82 : text[1].bytes[i] # sent[i]) - 1

\* C2. Checksum sensitivity: parsing the string of a key with any single
\* bit inverted fails with ChecksumMismatch.
TamperedIsChecksumMismatch ==
    Parsed("tampered") => Returned(ChecksumMismatch)

\* What from_str does with such a string instead: it never returns a key;
\* a bit of the version (offsets 0..3) fails with UnknownNetworkVersion; a
\* bit anywhere else fails with ChecksumMismatch, unless it leaves the
\* private scalar zero or not below the group order, where from_str panics
\* before it compares the checksum.
TamperedIsRejected ==
    Parsed("tampered") =>
        /\ last.kind # "Ok"
        /\ TamperedAt < 4 => Returned(UnknownNetworkVersion)
        /\ TamperedAt >= 4 /\ ValidScalar(Slice(text[1].bytes, 46, 78))
              => Returned(ChecksumMismatch)
        /\ TamperedAt >= 4 /\ ~ValidScalar(Slice(text[1].bytes, 46, 78))
              => last.kind = "Panic"

\* a bit of the chain code was inverted and the parse failed with
\* ChecksumMismatch
TamperedWitness ==
    /\ Parsed("tampered")
    /\ TamperedAt \in 13..44
    /\ Returned(ChecksumMismatch)

\* C3. Depth monotonicity: a child returned by ckd_priv has its parent's
\* depth plus one, and deriving from a parent of depth 255 fails with an
\* error (DepthOverflow) instead of returning a key or ending the process.
DepthOverflowIsError ==
    Derived =>
        /\ last.kind = "Ok" => key[1].depth = last.self[1].depth + 1
        /\ last.self[1].depth = 255
              /\ last.msg \notin {"error generating secret key", "error add assign"}
              => last.kind = "Err"

\* C4. from_str never ends the process: it returns a key or an error.
FromStrNeverPanics ==
    last.op = "from_str" => last.kind \in {"Ok", "Err"}

FingerprintZeroIffRoot ==
    key # None => (key[1].parent_fingerprint = Zeros(4) <=> key[1].depth = 0)

\* C7. Marker byte validation: from_str accepts a payload only if the byte
\* at offset 45 is 0x00, so every accepted string is the string of the key
\* returned.
MarkerValidated ==
    last.op = "from_str" /\ last.kind = "Ok" =>
        /\ text[1].bytes[46] = 0
        /\ fmt(key[1]) = text[1]

\* C8. Branch boundary: the keyed hash is fed 0x00, the parent's private
\* scalar and the big-endian index exactly when the index is at least 2^31,
\* and the parent's compressed public key and the big-endian index
\* otherwise; the child returned carries the index.
BranchBoundary ==
    Derived =>
        LET secret == last.self[1].private_key.secret_key
            i == last.child_number
            index == <<i.hi \div 256, i.hi % 256, i.lo \div 256, i.lo % 256>>
        IN  /\ i.hi >= 32768 => last.mac_data = <<0>> \o secret \o index
            /\ i.hi < 32768 => last.mac_data = PublicKeySerialize(secret) \o index
            /\ last.kind = "Ok" => key[1].child_number = i

\* C8 witness: a child has been derived at index 2^31, from the hardened
\* message.
BranchBoundaryWitness ==
    /\ Derived
    /\ last.kind = "Ok"
    /\ last.child_number = U32(32768, 0)
    /\ key[1].child_number = U32(32768, 0)
    /\ Len(last.mac_data) = 37
    /\ last.mac_data[1] = 0

\* C9. Root identity: a master key has depth 0, parent fingerprint
\* [0, 0, 0, 0] and child number 0.
RootIdentity ==
    last.op = "new" /\ last.kind = "Ok" =>
        /\ key[1].depth = 0
        /\ key[1].parent_fingerprint = <<0, 0, 0, 0>>
        /\ key[1].child_number = U32(0, 0)

\* C9 witness: new() has returned a master key.
RootIdentityWitness ==
    /\ last.op = "new"
    /\ last.kind = "Ok"
    /\ key # None
    /\ root.how = "master"

\* the left half of the keyed hash of the last derivation
LastLeftHalf ==
    Slice(HmacSha512(last.self[1].chain_code, last.mac_data), 0, 32)

\* C10. An invalid child scalar fails the derivation: when the left half of
\* the hash is no valid scalar, or its sum with the parent's scalar is zero
\* modulo the group order, ckd_priv returns an error (InvalidScalar); it does
\* not end the process.
InvalidChildScalarIsError ==
    Derived /\ (\/ ~ValidScalar(LastLeftHalf)
                \/ AddModOrder(LastLeftHalf, last.self[1].private_key.secret_key)
                       = Zeros(32))
        => last.kind = "Err"

\* C11. Network tag consistency: in every key that new, ckd_priv or from_str
\* hands to the caller, the network recorded on the embedded private key is
\* the network of the extended key.
EmbeddedNetworkConsistent ==
    key # None => key[1].private_key.network = key[1].network

====
